---- MODULE Spec2Model ----
(***************************************************************************)
(* Model of the reminder job of questionnaire/emails.py: send_emails,      *)
(* _new_runinfo and _send_email over the Subject / Run / RunInfo tables.   *)
(*                                                                         *)
(* Time is counted in ticks of 1/TicksPerSec second from an arbitrary      *)
(* origin, so that the sub-second part that datetime.now() and time.time() *)
(* carry, and that datetime.timetuple() drops, is visible.                 *)
(* Strings whose content the code inspects (run ids) are sequences of      *)
(* characters.  None is the empty sequence, a value v is <<v>>.            *)
(***************************************************************************)
EXTENDS Integers, Sequences, FiniteSets

VARIABLES
    subjects,     \* Subject table: id -> row
    runs,         \* Run table: the set of runids
    runinfos,     \* RunInfo table: pk -> row
    settings,     \* django.conf.settings: EMAILCODE, QUESTIONNAIRE_DEFAULT
    clock,        \* the wall clock, an index into Instants
    outbox,       \* messages accepted by the mail server, in order
    procs,        \* the processes that may invoke send_emails
    job,          \* per process: the locals of its send_emails invocation
    invocations   \* number of send_emails invocations started so far

vars == <<subjects, runs, runinfos, settings, clock, outbox, procs, job, invocations>>

-----------------------------------------------------------------------------
(* Bounds of the model *)

MaxInvocations == 2
TicksPerSec == 2

-----------------------------------------------------------------------------
(* Values *)

None == <<>>
Some(v) == <<v>>

\* the names bound in the module's global namespace by its import statements
ModuleNames ==
    {"random", "time", "smtplib", "datetime", "Header", "formataddr", "parseaddr",
     "get_connection", "EmailMessage", "login_required", "loader", "translation",
     "settings", "Http404", "HttpResponse", "get_object_or_404",
     "Subject", "QuestionSet", "RunInfo", "Questionnaire", "md5"}

\* 60 * 60 * 24 * 7 seconds, in ticks
WeekTicks == 60 * 60 * 24 * 7 * TicksPerSec
DayTicks == 60 * 60 * 24 * TicksPerSec

DigitChars == <<"0", "1", "2", "3", "4", "5", "6", "7", "8", "9">>

RECURSIVE Str(_)
\* str(n) for a non-negative integer n
Str(n) == IF n < 10 THEN <<DigitChars[n + 1]>>
          ELSE Str(n \div 10) \o <<DigitChars[(n % 10) + 1]>>

\* s.startswith(prefix)
StartsWith(s, prefix) ==
    /\ Len(s) >= Len(prefix)
    /\ SubSeq(s, 1, Len(prefix)) = prefix

TestPrefix == <<"t", "e", "s", "t", ":">>

\* time.mktime(d.timetuple()): timetuple() drops the sub-second part
MkTime(t) == (t \div TicksPerSec) * TicksPerSec

\* dates are <<year, month, day>>; d1 <= d2
DateLE(d1, d2) ==
    \/ d1[1] < d2[1]
    \/ d1[1] = d2[1] /\ d1[2] < d2[2]
    \/ d1[1] = d2[1] /\ d1[2] = d2[2] /\ d1[3] <= d2[3]

RECURSIVE SetToSeq(_)
\* the elements of a finite set of integers in ascending order (primary key order)
SetToSeq(S) ==
    IF S = {} THEN <<>>
    ELSE LET m == CHOOSE x \in S : \A y \in S : x <= y
         IN <<m>> \o SetToSeq(S \ {m})

Last(s) == s[Len(s)]

-----------------------------------------------------------------------------
(* The database and the environment the job runs in *)

\* instants at which the clock is read: the calendar date and the time in ticks.
\* SentAt is the emailsent of the rows already mailed before the job starts
\* (1.5 s after the origin when TicksPerSec = 2).
SentAt == TicksPerSec + 1
Instants ==
    << [date |-> <<2025, 2, 26>>, t |-> SentAt + 6 * DayTicks],
       [date |-> <<2025, 2, 27>>, t |-> SentAt + WeekTicks],
       [date |-> <<2025, 2, 28>>, t |-> SentAt + 8 * DayTicks] >>

\* QuestionSet table: id -> row
QuestionSets ==
    [id \in {1, 2, 3} |->
        CASE id = 1 -> [questionnaire |-> "yearly", sortid |-> 20]
          [] id = 2 -> [questionnaire |-> "yearly", sortid |-> 10]
          [] id = 3 -> [questionnaire |-> "other", sortid |-> 5]]

\* Questionnaire table: the names; "empty" has no question sets
Questionnaires == {"yearly", "other", "empty"}

YearRun == Str(2024)
TestRun == TestPrefix \o <<"1">>

SubjectIds == {1, 2}

Surname == [id \in SubjectIds |-> IF id = 1 THEN "Abel" ELSE "Baker"]
Givenname == [id \in SubjectIds |-> IF id = 1 THEN "Ann" ELSE "Bob"]

\* the Subject tables the job is started on
SubjectTables ==
    { [id \in SubjectIds |->
         [id |-> id, surname |-> Surname[id], givenname |-> Givenname[id],
          nextrun |-> t[id][1], state |-> t[id][2], formtype |-> t[id][3]]] :
      t \in { << <<<<2026, 1, 10>>, "active", "email">>, <<<<2026, 3, 1>>, "active", "email">> >>,
              << <<<<2026, 1, 10>>, "active", "email">>, <<<<2024, 6, 15>>, "inactive", "paper">> >>,
              << <<<<2024, 2, 29>>, "active", "email">>, <<<<2026, 3, 1>>, "active", "email">> >>,
              << <<<<2024, 6, 15>>, "active", "email">>, <<<<2024, 2, 29>>, "active", "email">> >>,
              << <<<<2025, 2, 27>>, "active", "paper">>, <<<<2026, 3, 1>>, "inactive", "email">> >> } }

\* the bookkeeping a RunInfo row can carry when the job starts: emailcount and emailsent
Bookkeeping ==
    { <<-1, None>>, <<-1, Some(SentAt)>>, <<0, None>>, <<0, Some(SentAt)>>, <<1, Some(SentAt)>> }

\* a RunInfo row as the job finds it: b is its emailcount and emailsent
Row(pk, subject, run, b, questionset) ==
    [pk |-> pk, subject |-> subject, run |-> run, random |-> <<subject, "z", "0a1b2c">>,
     emailcount |-> b[1], emailsent |-> b[2], lastemailerror |-> "",
     questionset |-> Some(questionset)]

\* the RunInfo tables the job is started on: one row per subject
RunInfoTables ==
    { [pk \in SubjectIds |-> IF pk = 1 THEN r1 ELSE r2] :
      r1 \in {Row(1, 1, run, b, 2) : run \in {YearRun, TestRun}, b \in Bookkeeping},
      r2 \in {Row(2, 2, YearRun, <<0, None>>, 2), Row(2, 2, YearRun, <<1, Some(SentAt)>>, 2),
              Row(2, 2, YearRun, <<0, None>>, 3), Row(2, 2, TestRun, <<1, Some(SentAt)>>, 1)} }

SettingsChoices ==
    { [EMAILCODE |-> Some("s3cret"), QUESTIONNAIRE_DEFAULT |-> Some("yearly")],
      [EMAILCODE |-> None, QUESTIONNAIRE_DEFAULT |-> None] }

\* the request argument: None (command line) or a request with its 'code' parameter
Requests == {None, Some(None), Some(Some("s3cret")), Some(Some("wrong"))}

\* the qname argument
QNames == {None, Some("yearly"), Some("other"), Some("empty"), Some("missing")}

\* what the mail transport does with one message
SMTPErrors == {"SMTPRecipientsRefused", "SMTPHeloError", "SMTPSenderRefused", "SMTPDataError"}
Outcomes == {"accepted", "other"} \cup SMTPErrors

RandomTokens == {"a1b2c3", "d4e5f6"}

-----------------------------------------------------------------------------
(* The locals of one send_emails invocation.  vpos and pos are the positions *)
(* of the two for loops in their querysets.  attempts (the calls of          *)
(* _send_email made, each with the row as it was passed) and atstart (the    *)
(* tables and the number of messages sent when the invocation began) record  *)
(* history; the job does not read them.                                      *)
IdleJob ==
    [pc |-> "idle", request |-> None, qname |-> None, questionnaire |-> None,
     questionset |-> None,
     viablesubjects |-> <<>>, vpos |-> 1, runinfos |-> <<>>, pos |-> 1, WEEKAGO |-> 0,
     outlog |-> <<>>, exc |-> None, result |-> None, attempts |-> <<>>,
     atstart |-> None]

\* the messages the server had accepted before the job starts: one for each
\* row that has been mailed, at its emailsent
SentBefore(table) ==
    LET pks == SetToSeq({pk \in DOMAIN table : table[pk].emailcount > 0})
    IN [i \in 1..Len(pks) |->
          [runinfo |-> pks[i], subject |-> table[pks[i]].subject,
           t |-> table[pks[i]].emailsent[1]]]

Init ==
    /\ subjects \in SubjectTables
    /\ runinfos \in RunInfoTables
    /\ runs = {runinfos[pk].run : pk \in DOMAIN runinfos}
    /\ settings \in SettingsChoices
    /\ clock = 1
    /\ outbox = SentBefore(runinfos)
    /\ procs = {1}
    /\ job = [p \in procs |-> IdleJob]
    /\ invocations = 0

-----------------------------------------------------------------------------
(* send_emails, lines 121-134: the gate, the resolution of the questionnaire *)
(* and of its first question set, and the selection of the due subjects      *)

\* the gate with None for the default of getattr: an absent code then
\* equals an EMAILCODE that is not configured
GateRefusesNoneDefault(request) ==
    /\ request # None
    /\ request[1] # settings.EMAILCODE

\* request and request.GET.get('code') != getattr(settings, 'EMAILCODE', False)
GateRefuses(request) ==
    /\ request # None
    /\ ~ ( /\ request[1] # None
           /\ settings.EMAILCODE # None
           /\ request[1] = settings.EMAILCODE )

\* QuestionSet.objects.filter(questionnaire__name=qname).order_by('sortid')
QuestionSetsOf(name) ==
    {id \in DOMAIN QuestionSets : QuestionSets[id].questionnaire = name}

FirstQuestionSet(name) ==
    CHOOSE id \in QuestionSetsOf(name) :
        \A other \in QuestionSetsOf(name) : QuestionSets[id].sortid <= QuestionSets[other].sortid

\* the resolution with the test of line 129 left out
ResolveEmptyAllowed(request, qname) ==
    LET name == IF qname # None THEN qname ELSE settings.QUESTIONNAIRE_DEFAULT
        failed(e, n) == [exc |-> Some(e), qname |-> n, questionnaire |-> None,
                         questionset |-> None]
    IN IF GateRefuses(request) THEN failed("Http404", qname)
       ELSE IF name = None
       THEN failed("Exception: QUESTIONNAIRE_DEFAULT not in settings", name)
       ELSE IF name[1] \notin Questionnaires THEN failed("Questionnaire.DoesNotExist", name)
       ELSE [exc |-> None, qname |-> name, questionnaire |-> name,
             questionset |-> IF QuestionSetsOf(name[1]) = {} THEN None
                             ELSE Some(FirstQuestionSet(name[1]))]

\* the exception lines 121-132 raise, or None, with the local qname, the
\* resolved questionnaire and its first question set
Resolve(request, qname) ==
    LET name == IF qname # None THEN qname ELSE settings.QUESTIONNAIRE_DEFAULT
        failed(e, n) == [exc |-> Some(e), qname |-> n, questionnaire |-> None,
                         questionset |-> None]
    IN IF GateRefuses(request) THEN failed("Http404", qname)
       ELSE IF name = None
       THEN failed("Exception: QUESTIONNAIRE_DEFAULT not in settings", name)
       ELSE IF name[1] \notin Questionnaires THEN failed("Questionnaire.DoesNotExist", name)
       ELSE IF QuestionSetsOf(name[1]) = {} THEN failed("Exception: No questionsets", name)
       ELSE [exc |-> None, qname |-> name, questionnaire |-> name,
             questionset |-> Some(FirstQuestionSet(name[1]))]

\* Subject.objects.filter(nextrun__lte = datetime.now(), state='active')
Viable(s, today) == DateLE(s.nextrun, today) /\ s.state = "active"

ViableSubjects(today) ==
    LET ids == SetToSeq({id \in DOMAIN subjects : Viable(subjects[id], today)})
    IN [i \in 1..Len(ids) |-> subjects[ids[i]]]

Running(p) == job[p].pc \in {"create", "email"}

Start(p, request, qname) ==
    /\ ~ Running(p)
    /\ invocations < MaxInvocations
    /\ invocations' = invocations + 1
    /\ LET res == Resolve(request, qname)
           began == [IdleJob EXCEPT !.request = request,
                                    !.atstart = Some([subjects |-> subjects,
                                                      runs |-> runs,
                                                      runinfos |-> runinfos,
                                                      sent |-> Len(outbox)])]
       IN job' = [job EXCEPT ![p] =
                IF res.exc # None
                THEN [began EXCEPT !.pc = "raised", !.qname = res.qname, !.exc = res.exc]
                ELSE [began EXCEPT !.pc = "create",
                                     !.qname = res.qname,
                                     !.questionnaire = res.questionnaire,
                                     !.questionset = res.questionset,
                                     !.viablesubjects = ViableSubjects(Instants[clock].date)]]
    /\ UNCHANGED <<subjects, runs, runinfos, settings, clock, outbox, procs>>

-----------------------------------------------------------------------------
(* _new_runinfo, lines 43-64 *)

\* _new_random: subject id, 'z', six hex digits of a hash over a random number
_new_random(subject, rnd) == <<subject.id, "z", rnd>>

\* RunInfo.objects.get_or_create(run=run, subject=subject): the matching rows
Matching(runid, subject) ==
    {pk \in DOMAIN runinfos : runinfos[pk].run = runid /\ runinfos[pk].subject = subject.id}

NextPk == IF DOMAIN runinfos = {} THEN 1
          ELSE 1 + (CHOOSE m \in DOMAIN runinfos : \A k \in DOMAIN runinfos : k <= m)

\* lines 59-62: the subject's next run, one year on
AdvanceNextrun(nextrun) ==
    IF nextrun[2] = 2 /\ nextrun[3] = 29
    THEN <<nextrun[1] + 1, 2, 28>>
    ELSE <<nextrun[1] + 1, nextrun[2], nextrun[3]>>

\* The tables after _new_runinfo(subject, questionset), and the exception it
\* raises, if any.  Line 52 looks the name Run up in the module's globals.
_new_runinfo(subject, questionset, rnd) ==
    LET nextrun == subject.nextrun
        runid == Str(nextrun[1])
        found == Matching(runid, subject)
        created == found = {}
        pk == IF created THEN NextPk ELSE CHOOSE k \in found : TRUE
        r0 == IF created
              THEN [pk |-> pk, subject |-> subject.id, run |-> runid,
                    random |-> _new_random(subject, rnd), emailcount |-> 0,
                    emailsent |-> None, lastemailerror |-> "", questionset |-> None]
              ELSE runinfos[pk]
        r == [r0 EXCEPT !.questionset = questionset]
    IN IF "Run" \notin ModuleNames
       THEN [exc |-> Some("NameError"), runs |-> runs, runinfos |-> runinfos,
             subjects |-> subjects]
       ELSE IF Cardinality(found) > 1
       THEN [exc |-> Some("RunInfo.MultipleObjectsReturned"), runs |-> runs \cup {runid},
             runinfos |-> runinfos, subjects |-> subjects]
       ELSE [exc |-> None,
             runs |-> runs \cup {runid},
             runinfos |-> [k \in DOMAIN runinfos \cup {pk} |-> IF k = pk THEN r ELSE runinfos[k]],
             subjects |-> [subjects EXCEPT ![subject.id] =
                              [subject EXCEPT !.nextrun = AdvanceNextrun(nextrun)]]]

\* send_emails, lines 135-136: one turn of the loop over the due subjects
NewRunInfoStep(p, rnd) ==
    /\ job[p].pc = "create"
    /\ job[p].vpos <= Len(job[p].viablesubjects)
    /\ LET s == job[p].viablesubjects[job[p].vpos]
           res == _new_runinfo(s, job[p].questionset, rnd)
       IN /\ runs' = res.runs
          /\ runinfos' = res.runinfos
          /\ subjects' = res.subjects
          /\ job' = [job EXCEPT ![p] =
                IF res.exc # None
                THEN [@ EXCEPT !.pc = "raised", !.exc = res.exc]
                ELSE [@ EXCEPT !.vpos = @ + 1]]
    /\ UNCHANGED <<settings, clock, outbox, procs, invocations>>

-----------------------------------------------------------------------------
(* send_emails, lines 137-139: the rows of the email phase *)

\* RunInfo.objects.filter(subject__formtype='email', questionset__questionnaire=questionnaire)
InEmailQuery(r, questionnaire) ==
    /\ subjects[r.subject].formtype = "email"
    /\ r.questionset # None
    /\ QuestionSets[r.questionset[1]].questionnaire = questionnaire[1]

EmailQuery(questionnaire) ==
    LET pks == SetToSeq({pk \in DOMAIN runinfos : InEmailQuery(runinfos[pk], questionnaire)})
    IN [i \in 1..Len(pks) |-> runinfos[pks[i]]]

BeginEmailPhase(p) ==
    /\ job[p].pc = "create"
    /\ job[p].vpos > Len(job[p].viablesubjects)
    /\ job' = [job EXCEPT ![p] =
                [@ EXCEPT !.pc = "email",
                          !.runinfos = EmailQuery(job[p].questionnaire),
                          !.pos = 1,
                          !.WEEKAGO = Instants[clock].t - WeekTicks,
                          !.outlog = <<>>]]
    /\ UNCHANGED <<subjects, runs, runinfos, settings, clock, outbox, procs, invocations>>

-----------------------------------------------------------------------------
(* _send_email, lines 66-109 *)

SMTPMessage(outcome) ==
    CASE outcome = "SMTPRecipientsRefused" -> "SMTP Recipient Refused"
      [] outcome = "SMTPHeloError" -> "SMTP Helo Error"
      [] outcome = "SMTPSenderRefused" -> "SMTP Sender Refused"
      [] outcome = "SMTPDataError" -> "SMTP Data Error"

\* _send_email with the bookkeeping of a delivery done before the message is
\* sent, so that a classified failure keeps it
SendEmailCountsFailures(runinfo, outcome, now) ==
    IF outcome = "accepted" \/ outcome \in SMTPErrors
    THEN [exc |-> None, ret |-> outcome = "accepted", sent |-> outcome = "accepted",
          saved |-> TRUE,
          row |-> [runinfo EXCEPT !.emailcount = 1 + runinfo.emailcount,
                                  !.emailsent = Some(now),
                                  !.lastemailerror = IF outcome = "accepted"
                                                     THEN "OK, accepted by server"
                                                     ELSE SMTPMessage(outcome)]]
    ELSE [exc |-> Some("Exception"), ret |-> FALSE, sent |-> FALSE, saved |-> FALSE,
          row |-> runinfo]

\* _send_email setting emailcount to 1 instead of adding 1 to it
SendEmailCountOne(runinfo, outcome, now) ==
    IF outcome = "accepted"
    THEN [exc |-> None, ret |-> TRUE, sent |-> TRUE, saved |-> TRUE,
          row |-> [runinfo EXCEPT !.emailcount = 1,
                                  !.emailsent = Some(now),
                                  !.lastemailerror = "OK, accepted by server"]]
    ELSE IF outcome \in SMTPErrors
    THEN [exc |-> None, ret |-> FALSE, sent |-> FALSE, saved |-> TRUE,
          row |-> [runinfo EXCEPT !.lastemailerror = SMTPMessage(outcome)]]
    ELSE [exc |-> Some("Exception"), ret |-> FALSE, sent |-> FALSE, saved |-> FALSE,
          row |-> runinfo]

\* _send_email leaving emailsent as it was on a delivery
SendEmailNoStamp(runinfo, outcome, now) ==
    IF outcome = "accepted"
    THEN [exc |-> None, ret |-> TRUE, sent |-> TRUE, saved |-> TRUE,
          row |-> [runinfo EXCEPT !.emailcount = 1 + runinfo.emailcount,
                                  !.lastemailerror = "OK, accepted by server"]]
    ELSE IF outcome \in SMTPErrors
    THEN [exc |-> None, ret |-> FALSE, sent |-> FALSE, saved |-> TRUE,
          row |-> [runinfo EXCEPT !.lastemailerror = SMTPMessage(outcome)]]
    ELSE [exc |-> Some("Exception"), ret |-> FALSE, sent |-> FALSE, saved |-> FALSE,
          row |-> runinfo]

\* _send_email(runinfo) when the transport answers with outcome at time now:
\* the exception it lets through (exc), its return value (ret), whether the
\* message left (sent), and the row as it is when the call ends (row), which
\* is written to the table when saved.
_send_email(runinfo, outcome, now) ==
    IF outcome = "accepted"
    THEN [exc |-> None, ret |-> TRUE, sent |-> TRUE, saved |-> TRUE,
          row |-> [runinfo EXCEPT !.emailcount = 1 + runinfo.emailcount,
                                  !.emailsent = Some(now),
                                  !.lastemailerror = "OK, accepted by server"]]
    ELSE IF outcome \in SMTPErrors
    THEN [exc |-> None, ret |-> FALSE, sent |-> FALSE, saved |-> TRUE,
          row |-> [runinfo EXCEPT !.lastemailerror = SMTPMessage(outcome)]]
    ELSE [exc |-> Some("Exception"), ret |-> FALSE, sent |-> FALSE, saved |-> FALSE,
          row |-> runinfo]

-----------------------------------------------------------------------------
(* send_emails, lines 140-156: the email phase *)

\* the selection without the test of line 143
SelectionNoSuppressedSkip(r, WEEKAGO) ==
    IF StartsWith(r.run, TestPrefix) THEN "skip"
    ELSE IF r.emailcount = 0 THEN "send"
    ELSE IF r.emailsent = None THEN "raise"
    ELSE IF MkTime(r.emailsent[1]) < WEEKAGO THEN "send"
    ELSE "skip"

\* the selection without the test of line 141
SelectionNoTestSkip(r, WEEKAGO) ==
    IF r.emailcount = -1 THEN "skip"
    ELSE IF r.emailcount = 0 THEN "send"
    ELSE IF r.emailsent = None THEN "raise"
    ELSE IF MkTime(r.emailsent[1]) < WEEKAGO THEN "send"
    ELSE "skip"

\* the selection with the age test alone on line 145
SelectionAgeOnly(r, WEEKAGO) ==
    IF StartsWith(r.run, TestPrefix) THEN "skip"
    ELSE IF r.emailcount = -1 THEN "skip"
    ELSE IF r.emailsent = None THEN "raise"
    ELSE IF MkTime(r.emailsent[1]) < WEEKAGO THEN "send"
    ELSE "skip"

\* lines 141-145: what the loop does with row r: "skip" it (continue, or the
\* condition of line 145 is false), "send" (call _send_email), or "raise"
\* (r.emailsent.timetuple() on None, evaluated only when emailcount is not 0)
Selection(r, WEEKAGO) ==
    IF StartsWith(r.run, TestPrefix) THEN "skip"
    ELSE IF r.emailcount = -1 THEN "skip"
    ELSE IF r.emailcount = 0 THEN "send"
    ELSE IF r.emailsent = None THEN "raise"
    ELSE IF MkTime(r.emailsent[1]) < WEEKAGO THEN "send"
    ELSE "skip"

\* the log line with 'OK' for every call of _send_email that raised nothing
LogLineAlwaysOK(r, res) ==
    LET s == subjects[r.subject]
    IN IF res.exc # None
       THEN [head |-> "Exception", run |-> r.run, surname |-> s.surname,
             givenname |-> None, text |-> res.exc[1]]
       ELSE [head |-> "", run |-> r.run, surname |-> s.surname,
             givenname |-> Some(s.givenname), text |-> "OK"]

\* lines 148-152: the line appended to outlog
LogLine(r, res) ==
    LET s == subjects[r.subject]
    IN IF res.exc # None
       THEN [head |-> "Exception", run |-> r.run, surname |-> s.surname,
             givenname |-> None, text |-> res.exc[1]]
       ELSE [head |-> "", run |-> r.run, surname |-> s.surname,
             givenname |-> Some(s.givenname),
             text |-> IF res.ret THEN "OK" ELSE res.row.lastemailerror]

\* the call of _send_email with an except clause for the SMTP errors only:
\* any other exception ends the invocation
AttemptUncaught(p, r, outcome) ==
    LET now == Instants[clock].t
        res == _send_email(r, outcome, now)
    IN /\ runinfos' = IF res.saved THEN [runinfos EXCEPT ![r.pk] = res.row] ELSE runinfos
       /\ outbox' = IF res.sent
                    THEN Append(outbox, [runinfo |-> r.pk, subject |-> r.subject, t |-> now])
                    ELSE outbox
       /\ job' = [job EXCEPT ![p] =
                    IF res.exc # None
                    THEN [@ EXCEPT !.pc = "raised", !.exc = res.exc,
                                   !.attempts = Append(@, [pk |-> r.pk, outcome |-> outcome,
                                                           before |-> r])]
                    ELSE [@ EXCEPT !.pos = @ + 1,
                                   !.outlog = Append(@, LogLine(r, res)),
                                   !.attempts = Append(@, [pk |-> r.pk, outcome |-> outcome,
                                                           before |-> r])]]

\* lines 146-152: the try statement around _send_email
Attempt(p, r, outcome) ==
    LET now == Instants[clock].t
        res == _send_email(r, outcome, now)
    IN /\ runinfos' = IF res.saved THEN [runinfos EXCEPT ![r.pk] = res.row] ELSE runinfos
       /\ outbox' = IF res.sent
                    THEN Append(outbox, [runinfo |-> r.pk, subject |-> r.subject, t |-> now])
                    ELSE outbox
       /\ job' = [job EXCEPT ![p] =
                    [@ EXCEPT !.pos = @ + 1,
                              !.outlog = Append(@, LogLine(r, res)),
                              !.attempts = Append(@, [pk |-> r.pk, outcome |-> outcome,
                                                      before |-> r])]]

\* one turn of the loop of line 140
EmailStep(p, outcome) ==
    /\ job[p].pc = "email"
    /\ job[p].pos <= Len(job[p].runinfos)
    /\ LET r == job[p].runinfos[job[p].pos]
           verdict == Selection(r, job[p].WEEKAGO)
       IN CASE verdict = "send" -> Attempt(p, r, outcome)
            [] verdict = "raise" ->
                 /\ job' = [job EXCEPT ![p] =
                              [@ EXCEPT !.pc = "raised", !.exc = Some("AttributeError")]]
                 /\ UNCHANGED <<runinfos, outbox>>
            [] OTHER ->
                 /\ job' = [job EXCEPT ![p] = [@ EXCEPT !.pos = @ + 1]]
                 /\ UNCHANGED <<runinfos, outbox>>
    /\ UNCHANGED <<subjects, runs, settings, clock, procs, invocations>>

\* lines 153-156
Return(p) ==
    /\ job[p].pc = "email"
    /\ job[p].pos > Len(job[p].runinfos)
    /\ job' = [job EXCEPT ![p] =
                [@ EXCEPT !.pc = "returned",
                          !.result = Some([response |-> job[p].request # None,
                                           lines |-> job[p].outlog])]]
    /\ UNCHANGED <<subjects, runs, runinfos, settings, clock, outbox, procs, invocations>>

-----------------------------------------------------------------------------
\* time passes
Tick ==
    /\ clock < Len(Instants)
    /\ clock' = clock + 1
    /\ UNCHANGED <<subjects, runs, runinfos, settings, outbox, procs, job, invocations>>

Next ==
    \/ \E p \in procs : \E request \in Requests, qname \in QNames : Start(p, request, qname)
    \/ \E p \in procs : \E rnd \in RandomTokens : NewRunInfoStep(p, rnd)
    \/ \E p \in procs : BeginEmailPhase(p)
    \/ \E p \in procs : \E outcome \in Outcomes : EmailStep(p, outcome)
    \/ \E p \in procs : Return(p)
    \/ Tick

Spec == Init /\ [][Next]_vars

\* two processes invoke send_emails on the same tables, their steps interleaved
InitConc ==
    /\ subjects \in {t \in SubjectTables : t[1].nextrun[1] = t[2].nextrun[1]}
    /\ runinfos = [pk \in SubjectIds |->
                      IF pk = 1 THEN Row(1, 1, YearRun, <<0, None>>, 2)
                                ELSE Row(2, 2, YearRun, <<1, Some(SentAt)>>, 2)]
    /\ runs = {runinfos[pk].run : pk \in DOMAIN runinfos}
    /\ settings = [EMAILCODE |-> Some("s3cret"), QUESTIONNAIRE_DEFAULT |-> Some("yearly")]
    /\ clock = 1
    /\ outbox = SentBefore(runinfos)
    /\ procs = {1, 2}
    /\ job = [p \in procs |-> IdleJob]
    /\ invocations = 0

SpecConc == InitConc /\ [][Next]_vars

-----------------------------------------------------------------------------
(* Vocabulary of the properties *)

Ended(p) == job[p].pc \in {"returned", "raised"}

\* the positions of viablesubjects for which _new_runinfo has been called
Called(p) ==
    {i \in DOMAIN job[p].viablesubjects :
        i < job[p].vpos \/ (i = job[p].vpos /\ job[p].pc = "raised")}

\* the positions of the email queryset the loop of line 140 has been through
Handled(p) == {i \in DOMAIN job[p].runinfos : i < job[p].pos}

RowsFor(subject, runid) ==
    {pk \in DOMAIN runinfos : runinfos[pk].subject = subject /\ runinfos[pk].run = runid}

AttemptedPks(p) == {job[p].attempts[i].pk : i \in DOMAIN job[p].attempts}

\* the log lines about row r: they name its run and its subject
LinesFor(p, r) ==
    {i \in DOMAIN job[p].outlog :
        /\ job[p].outlog[i].run = r.run
        /\ job[p].outlog[i].surname = subjects[r.subject].surname}

\* the messages sent for row pk since the invocation of p began
SentFor(p, pk) ==
    {i \in DOMAIN outbox : i > job[p].atstart[1].sent /\ outbox[i].runinfo = pk}

IsLeapDay(d) == d[2] = 2 /\ d[3] = 29

-----------------------------------------------------------------------------
(* C1: every call of the run-creation step for a (subject, run-year) pair   *)
(* leaves exactly one RunInfo row for the pair: the first call makes it, a *)
(* second call reuses it; so no pair ever has two rows.                     *)
C1_CallLeavesOneRow ==
    \A p \in procs : \A i \in Called(p) :
        LET s == job[p].viablesubjects[i]
        IN Cardinality(RowsFor(s.id, Str(s.nextrun[1]))) = 1

(* C7: when an invocation has ended, every subject that was due and active *)
(* in it with nextrun on Feb 29 has nextrun Feb 28 of the following year.  *)
C7_LeapDayToFeb28 ==
    \A p \in procs : Ended(p) =>
        \A i \in DOMAIN job[p].viablesubjects :
            LET s == job[p].viablesubjects[i]
            IN IsLeapDay(s.nextrun) =>
                 subjects[s.id].nextrun = <<s.nextrun[1] + 1, 2, 28>>

(* C8: when an invocation has ended, every subject that was due and active *)
(* in it with nextrun on another day than Feb 29 has nextrun one year      *)
(* later, same month and day.                                               *)
C8_SameDayNextYear ==
    \A p \in procs : Ended(p) =>
        \A i \in DOMAIN job[p].viablesubjects :
            LET s == job[p].viablesubjects[i]
            IN ~ IsLeapDay(s.nextrun) =>
                 subjects[s.id].nextrun = <<s.nextrun[1] + 1, s.nextrun[2], s.nextrun[3]>>

\* the scenario of C6 at the start of p's invocation: a questionnaire with one
\* question set, both subjects due, active and mailed, a RunInfo with
\* emailcount 0 for one and a RunInfo with emailcount -1 for the other
C6Scenario(p) ==
    /\ job[p].questionnaire # None
    /\ Cardinality(QuestionSetsOf(job[p].questionnaire[1])) = 1
    /\ {job[p].viablesubjects[i].id : i \in DOMAIN job[p].viablesubjects} = SubjectIds
    /\ \A id \in SubjectIds : subjects[id].formtype = "email"
    /\ LET before == job[p].atstart[1].runinfos
       IN \E a, b \in DOMAIN before :
             /\ before[a].subject # before[b].subject
             /\ before[a].emailcount = 0
             /\ before[b].emailcount = -1

(* C6: in that scenario one invocation returns, leaves two new RunInfo     *)
(* rows, sends exactly one email, and its log has exactly one OK line and  *)
(* no line for the suppressed subject.                                     *)
C6_EndToEnd ==
    \A p \in procs : (Ended(p) /\ C6Scenario(p)) =>
        LET before == job[p].atstart[1].runinfos
        IN /\ job[p].pc = "returned"
           /\ Cardinality(DOMAIN runinfos) = Cardinality(DOMAIN before) + 2
           /\ Len(outbox) = job[p].atstart[1].sent + 1
           /\ Cardinality({i \in DOMAIN job[p].outlog : job[p].outlog[i].text = "OK"}) = 1
           /\ \A b \in DOMAIN before : before[b].emailcount = -1 =>
                 \A i \in DOMAIN job[p].outlog :
                    job[p].outlog[i].surname # subjects[before[b].subject].surname

-----------------------------------------------------------------------------
(* C2: a RunInfo of the email queryset with emailcount -1 is never passed  *)
(* to _send_email, whatever its emailsent; the email phase leaves the row  *)
(* as it was, sends no message for it and logs no line about it.           *)
C2_SuppressedNeverSent ==
    \A p \in procs : \A i \in DOMAIN job[p].runinfos :
        LET r == job[p].runinfos[i]
        IN r.emailcount = -1 =>
             /\ r.pk \notin AttemptedPks(p)
             /\ runinfos[r.pk] = r
             /\ SentFor(p, r.pk) = {}
             /\ LinesFor(p, r) = {}

\* an invocation has returned after a send attempt, having gone past a
\* suppressed row of a real run whose emailsent is more than a week old
C2_Witness ==
    \E p \in procs :
        /\ job[p].pc = "returned"
        /\ job[p].attempts # <<>>
        /\ \E i \in Handled(p) :
              LET r == job[p].runinfos[i]
              IN /\ r.emailcount = -1
                 /\ ~ StartsWith(r.run, TestPrefix)
                 /\ r.emailsent # None
                 /\ r.emailsent[1] + DayTicks <= job[p].WEEKAGO

(* C3: a row with emailcount > 0 that reaches the age test of line 145 is  *)
(* passed to _send_email exactly when its emailsent is more than 604800    *)
(* seconds before the 'now' of the invocation (time.time() of line 138).   *)
C3_ResentExactlyAfterAWeek ==
    \A p \in procs : \A i \in Handled(p) :
        LET r == job[p].runinfos[i]
            now == job[p].WEEKAGO + WeekTicks
        IN (r.emailcount > 0 /\ ~ StartsWith(r.run, TestPrefix)) =>
              (r.pk \in AttemptedPks(p) <=> now - r.emailsent[1] > WeekTicks)

(* C4: after a send attempt that met one of the four classified SMTP       *)
(* failures, the row has the emailcount and emailsent it had, its          *)
(* lastemailerror is the message of that failure, no message was sent for  *)
(* it, the log line of the attempt carries that message (_send_email       *)
(* returned False), and the invocation goes on.                            *)
C4_ClassifiedFailure ==
    \A p \in procs : \A i \in DOMAIN job[p].attempts :
        LET a == job[p].attempts[i]
            message == CASE a.outcome = "SMTPRecipientsRefused" -> "SMTP Recipient Refused"
                         [] a.outcome = "SMTPHeloError" -> "SMTP Helo Error"
                         [] a.outcome = "SMTPSenderRefused" -> "SMTP Sender Refused"
                         [] a.outcome = "SMTPDataError" -> "SMTP Data Error"
                         [] OTHER -> ""
        IN a.outcome \in SMTPErrors =>
             /\ runinfos[a.pk].emailcount = a.before.emailcount
             /\ runinfos[a.pk].emailsent = a.before.emailsent
             /\ runinfos[a.pk].lastemailerror = message
             /\ SentFor(p, a.pk) = {}
             /\ job[p].outlog[i].head = ""
             /\ job[p].outlog[i].text = message
             /\ job[p].pc \in {"email", "returned"}
             /\ job[p].pos > i

\* a refused recipient on a row that had been mailed before, followed by the
\* attempt for the next recipient
C4_Witness ==
    \E p \in procs :
        /\ Len(job[p].attempts) = 2
        /\ job[p].attempts[1].outcome = "SMTPRecipientsRefused"
        /\ job[p].attempts[1].before.emailcount = 1
        /\ job[p].attempts[2].outcome = "accepted"

C9_NeverSentIsSent ==
    \A p \in procs :
        /\ \A i \in Handled(p) :
              LET r == job[p].runinfos[i]
              IN (r.emailcount = 0 /\ ~ StartsWith(r.run, TestPrefix)) =>
                    r.pk \in AttemptedPks(p)
        /\ (job[p].pc = "raised" /\ job[p].pos \in DOMAIN job[p].runinfos) =>
              job[p].runinfos[job[p].pos].emailcount # 0

\* attempts were made for a never-mailed row without emailsent and for one
\* whose emailsent is less than a week old
C9_Witness ==
    \E p \in procs : \E i, j \in Handled(p) :
        LET r == job[p].runinfos[i]
            q == job[p].runinfos[j]
        IN /\ r.emailcount = 0 /\ r.emailsent = None
           /\ q.emailcount = 0 /\ q.emailsent # None
           /\ q.emailsent[1] > job[p].WEEKAGO
           /\ {r.pk, q.pk} \subseteq AttemptedPks(p)

(* C10: a row of the email queryset whose run id starts with 'test:' is    *)
(* never passed to _send_email; the email phase leaves it as it was, sends *)
(* no message for it and logs no line about it.                            *)
C10_TestRunsNeverSent ==
    \A p \in procs : \A i \in DOMAIN job[p].runinfos :
        LET r == job[p].runinfos[i]
        IN StartsWith(r.run, TestPrefix) =>
             /\ r.pk \notin AttemptedPks(p)
             /\ runinfos[r.pk] = r
             /\ SentFor(p, r.pk) = {}
             /\ LinesFor(p, r) = {}

\* an invocation has returned having gone past two test rows, one never
\* mailed and one mailed more than a week before
C10_Witness ==
    \E p \in procs :
        /\ job[p].pc = "returned"
        /\ \E i, j \in Handled(p) :
              LET r == job[p].runinfos[i]
                  q == job[p].runinfos[j]
              IN /\ StartsWith(r.run, TestPrefix) /\ r.emailcount = 0
                 /\ StartsWith(q.run, TestPrefix) /\ q.emailcount > 0
                 /\ q.emailsent[1] + DayTicks <= job[p].WEEKAGO

-----------------------------------------------------------------------------
\* the tables and the outbox are as they were when the invocation of p began
NothingDone(p) ==
    /\ subjects = job[p].atstart[1].subjects
    /\ runs = job[p].atstart[1].runs
    /\ runinfos = job[p].atstart[1].runinfos
    /\ Len(outbox) = job[p].atstart[1].sent
    /\ job[p].attempts = <<>>

(* C11: an invocation that is past the gate and has no questionnaire name  *)
(* (none given, none configured), or the name of no questionnaire, or of a *)
(* questionnaire without question sets, has raised, and has changed no     *)
(* Subject, Run or RunInfo and sent no email.                              *)
C11_ResolutionErrorsFatal ==
    \A p \in procs :
        LET name == job[p].qname
            unresolved ==
                \/ name = None
                \/ name[1] \notin Questionnaires
                \/ \A id \in DOMAIN QuestionSets : QuestionSets[id].questionnaire # name[1]
        IN (job[p].pc # "idle" /\ job[p].exc # Some("Http404") /\ unresolved) =>
              /\ job[p].pc = "raised"
              /\ job[p].exc \in {Some("Exception: QUESTIONNAIRE_DEFAULT not in settings"),
                                 Some("Questionnaire.DoesNotExist"),
                                 Some("Exception: No questionsets")}
              /\ NothingDone(p)

\* a second invocation, for a questionnaire without question sets, has raised
\* while a subject is due and the first invocation had sent an email
C11_Witness ==
    \E p \in procs :
        /\ job[p].pc = "raised"
        /\ job[p].qname = Some("empty")
        /\ job[p].exc = Some("Exception: No questionsets")
        /\ \E i \in DOMAIN outbox : outbox[i].t >= Instants[1].t
        /\ invocations = 2
        /\ \E id \in SubjectIds : Viable(subjects[id], Instants[clock].date)

(* C12: an invocation with a request whose 'code' parameter is not the    *)
(* configured EMAILCODE (a different code, no code, or no EMAILCODE         *)
(* configured) has raised Http404 and has changed no Subject, Run or        *)
(* RunInfo and sent no email; an invocation without a request, or with the  *)
(* matching code, never raises Http404.                                     *)
C12_WebGate ==
    \A p \in procs :
        LET request == job[p].request
            matches == /\ request # None
                       /\ request[1] # None
                       /\ settings.EMAILCODE # None
                       /\ request[1][1] = settings.EMAILCODE[1]
        IN job[p].pc # "idle" =>
              /\ (request # None /\ ~ matches) =>
                    /\ job[p].pc = "raised"
                    /\ job[p].exc = Some("Http404")
                    /\ NothingDone(p)
              /\ (request = None \/ matches) => job[p].exc # Some("Http404")

\* a request without a code has been refused where no EMAILCODE is configured,
\* while a never-mailed row waits for its email
C12_Witness ==
    \E p \in procs :
        /\ job[p].pc = "raised"
        /\ job[p].request = Some(None)
        /\ settings.EMAILCODE = None
        /\ job[p].qname = Some("yearly")
        /\ \E pk \in DOMAIN runinfos :
              Selection(runinfos[pk], Instants[clock].t - WeekTicks) = "send"

(* C13: once the run-creation loop of an invocation is over, every subject *)
(* that was active and due when it began, whatever its formtype, has a     *)
(* RunInfo for the run named by the year of the nextrun it had, with the   *)
(* questionnaire's lowest-sorted question set, and its nextrun advanced;   *)
(* every other subject has the nextrun it had.                             *)
C13_RunCreationForDue ==
    \A p \in procs : (job[p].pc = "email" \/ Ended(p)) =>
        LET due == {job[p].viablesubjects[i].id : i \in DOMAIN job[p].viablesubjects}
            before == job[p].atstart[1].subjects
        IN \A id \in DOMAIN before :
              IF id \in due
              THEN /\ subjects[id].nextrun[1] = before[id].nextrun[1] + 1
                   /\ \E pk \in RowsFor(id, Str(before[id].nextrun[1])) :
                         /\ runinfos[pk].questionset # None
                         /\ LET qs == runinfos[pk].questionset[1]
                            IN /\ QuestionSets[qs].questionnaire = job[p].questionnaire[1]
                               /\ \A other \in DOMAIN QuestionSets :
                                     QuestionSets[other].questionnaire = job[p].questionnaire[1]
                                        => QuestionSets[qs].sortid <= QuestionSets[other].sortid
              ELSE subjects[id].nextrun = before[id].nextrun

\* the step is a call of _send_email by p that the server accepted
Delivered(p) ==
    /\ Len(job'[p].attempts) = Len(job[p].attempts) + 1
    /\ Last(job'[p].attempts).outcome = "accepted"

(* C15: a step in which _send_email delivers the message for a RunInfo     *)
(* adds exactly 1 to the row's emailcount, sets its emailsent to the       *)
(* current time and its lastemailerror to 'OK, accepted by server', sends  *)
(* one message, is logged as OK, and changes no other RunInfo, no Run and  *)
(* no Subject.                                                             *)
C15_SuccessfulDelivery ==
    [][\A p \in procs : Delivered(p) =>
          LET pk == Last(job'[p].attempts).pk
          IN /\ runinfos'[pk] = [runinfos[pk] EXCEPT
                                    !.emailcount = runinfos[pk].emailcount + 1,
                                    !.emailsent = Some(Instants[clock].t),
                                    !.lastemailerror = "OK, accepted by server"]
             /\ DOMAIN runinfos' = DOMAIN runinfos
             /\ \A other \in DOMAIN runinfos : other # pk => runinfos'[other] = runinfos[other]
             /\ subjects' = subjects
             /\ runs' = runs
             /\ outbox' = Append(outbox, [runinfo |-> pk, subject |-> runinfos[pk].subject,
                                          t |-> Instants[clock].t])
             /\ Last(job'[p].outlog).text = "OK"
             /\ Last(job'[p].outlog).head = ""]_vars

\* a row that had been mailed once has been delivered a second message
C15_Witness ==
    \E p \in procs : \E i \in DOMAIN job[p].attempts :
        LET a == job[p].attempts[i]
        IN /\ a.outcome = "accepted"
           /\ a.before.emailcount = 1
           /\ runinfos[a.pk].emailcount = 2
           /\ runinfos[a.pk].emailsent = Some(Instants[clock].t)

(* C16: the log of an invocation has one line per call of _send_email, in  *)
(* order, and none for a row it skipped: a line ending in OK for a         *)
(* delivery, a line with the row's lastemailerror for a classified SMTP    *)
(* failure, an 'Exception:' line for any other exception; the returned     *)
(* result carries these lines, and the OK lines are as many as the rows    *)
(* whose emailcount the invocation has raised.                             *)
C16_OneLinePerAttempt ==
    \A p \in procs :
        /\ Len(job[p].outlog) = Len(job[p].attempts)
        /\ \A i \in DOMAIN job[p].attempts :
              LET a == job[p].attempts[i]
                  line == job[p].outlog[i]
              IN /\ line.run = a.before.run
                 /\ line.surname = subjects[a.before.subject].surname
                 /\ a.outcome = "accepted" => (line.head = "" /\ line.text = "OK")
                 /\ a.outcome \in SMTPErrors =>
                       /\ line.head = ""
                       /\ line.text = runinfos[a.pk].lastemailerror
                       /\ line.text # "OK"
                 /\ a.outcome = "other" => line.head = "Exception"
        /\ \A i \in DOMAIN job[p].runinfos :
              job[p].runinfos[i].pk \notin AttemptedPks(p) => LinesFor(p, job[p].runinfos[i]) = {}
        /\ job[p].pc = "returned" => job[p].result[1].lines = job[p].outlog
        /\ job[p].atstart # None =>
              Cardinality({i \in DOMAIN job[p].outlog :
                              job[p].outlog[i].head = "" /\ job[p].outlog[i].text = "OK"})
              = Cardinality({pk \in DOMAIN runinfos :
                              /\ pk \in DOMAIN job[p].atstart[1].runinfos
                              /\ runinfos[pk].emailcount
                                    > job[p].atstart[1].runinfos[pk].emailcount})

\* an invocation has returned a log of two lines, a refusal and an OK
C16_Witness ==
    \E p \in procs :
        /\ job[p].pc = "returned"
        /\ Len(job[p].result[1].lines) = 2
        /\ job[p].result[1].lines[1].text = "SMTP Recipient Refused"
        /\ job[p].result[1].lines[2].text = "OK"

(* C17: no step of the job takes a RunInfo away, changes an emailcount of  *)
(* -1, or lowers an emailcount: a step leaves each emailcount as it is or, *)
(* when it is a delivery for that row, adds 1 to it; a row the step        *)
(* creates has emailcount 0.                                               *)
C17_SuppressionPermanent ==
    [][/\ DOMAIN runinfos \subseteq DOMAIN runinfos'
       /\ \A pk \in DOMAIN runinfos :
             LET old == runinfos[pk].emailcount
                 new == runinfos'[pk].emailcount
             IN /\ old = -1 => new = -1
                /\ new \in {old, old + 1}
                /\ new = old + 1 =>
                      \E p \in procs : Delivered(p) /\ Last(job'[p].attempts).pk = pk
       /\ \A pk \in DOMAIN runinfos' \ DOMAIN runinfos : runinfos'[pk].emailcount = 0]_vars

\* after two invocations a suppressed row of a real run, mailed more than a
\* week before, is still suppressed, and the other row has got its second email
C17_Witness ==
    \E p \in procs : \E i, j \in Handled(p) :
        LET r == job[p].runinfos[i]
            q == job[p].runinfos[j]
        IN /\ invocations = 2
           /\ job[p].pc = "returned"
           /\ r.emailcount = -1
           /\ ~ StartsWith(r.run, TestPrefix)
           /\ r.emailsent # None
           /\ r.emailsent[1] + DayTicks <= job[p].WEEKAGO
           /\ runinfos[r.pk].emailcount = -1
           /\ runinfos[q.pk].emailcount = 2

(* C18: any two messages accepted for the same RunInfo are more than       *)
(* 604800 seconds apart.                                                   *)
C18_SendsMoreThanAWeekApart ==
    \A i, j \in DOMAIN outbox :
        (i < j /\ outbox[i].runinfo = outbox[j].runinfo) =>
            outbox[j].t - outbox[i].t > WeekTicks

(* C19: every RunInfo with emailcount > 0 has its emailsent set, and no    *)
(* invocation is ended by the age test of line 145 failing on a missing    *)
(* emailsent.                                                              *)
C19_SentRowsHaveTimestamp ==
    /\ \A pk \in DOMAIN runinfos :
          runinfos[pk].emailcount > 0 => runinfos[pk].emailsent # None
    /\ \A p \in procs : job[p].exc # Some("AttributeError")

\* a second invocation has put to the age test, and passed over, a row that
\* had no emailsent before the first invocation mailed it
C19_Witness ==
    \E p \in procs : \E i \in Handled(p) :
        LET r == job[p].runinfos[i]
        IN /\ invocations = 2
           /\ r.emailcount = 1
           /\ r.emailsent # None
           /\ r.emailsent[1] >= Instants[1].t
           /\ r.pk \notin AttemptedPks(p)
           /\ ~ StartsWith(r.run, TestPrefix)

(* C20: when an invocation has ended, every subject that was due and       *)
(* active in it is one year further (the year of its nextrun has grown by  *)
(* exactly 1) and has one RunInfo for the year it has left, so that        *)
(* repeated invocations bring every subject past the clock.                *)
C20_OneYearPerInvocation ==
    \A p \in procs : Ended(p) =>
        \A i \in DOMAIN job[p].viablesubjects :
            LET s == job[p].viablesubjects[i]
            IN /\ subjects[s.id].nextrun[1] = s.nextrun[1] + 1
               /\ RowsFor(s.id, Str(s.nextrun[1])) # {}

\* two messages for the same RunInfo not more than a week apart
DoubleSend ==
    \E i, j \in DOMAIN outbox :
        /\ i < j
        /\ outbox[i].runinfo = outbox[j].runinfo
        /\ outbox[j].t - outbox[i].t <= WeekTicks

\* two RunInfo rows for the same subject and run
DuplicateRun ==
    \E a, b \in DOMAIN runinfos :
        /\ a # b
        /\ runinfos[a].subject = runinfos[b].subject
        /\ runinfos[a].run = runinfos[b].run

(* C14: with one invocation at a time, no RunInfo is emailed twice within  *)
(* 7 days and no (subject, run) pair gets two rows; such states are        *)
(* reached only when two invocations are interleaved.                      *)
C14_SequentialSafe == ~ DoubleSend /\ ~ DuplicateRun

\* under SpecConc: two interleaved invocations have each sent the email of
\* the same never-mailed RunInfo, at the same instant
C14_ConcurrentDoubleSend ==
    \E i, j \in DOMAIN outbox :
        /\ i < j
        /\ outbox[i].runinfo = outbox[j].runinfo
        /\ outbox[i].t = outbox[j].t
        /\ \A p \in procs : job[p].pc = "returned" /\ Len(job[p].attempts) > 0

====
